---- MODULE Spec2Model ----
(***************************************************************************)
(* A model of go-nsenter (src/nsenter.go): main() joins the namespaces of  *)
(* a target process in a fixed order and then launches a command, either   *)
(* by replacing the process image or by running a child.  Every system     *)
(* call of main() and enterNamespace() is one step; the outcome of a       *)
(* system call is chosen nondeterministically.                             *)
(***************************************************************************)
EXTENDS Integers, Sequences, FiniteSets, TLC

VARIABLES
    pid,            \* -target flag (src/nsenter.go:15,59)
    mntNs, utsNs, netNs, ipcNs, pidNs,   \* kind selectors (17-21, 60-64)
    posArgs,        \* flag.Args(): the positional arguments
    shellEnv,       \* os.Getenv("SHELL")
    shared,         \* kinds whose namespace the caller shares with the target at start
    command,        \* main's local command (67)
    pc,             \* position in main
    jpc,            \* position in enterNamespace ("idle" when not in a call)
    nsType,         \* enterNamespace's parameter nsType
    err,            \* the error enterNamespace returns ("nil" when none)
    ns,             \* namespace membership of the calling thread, per kind
    pidForChildren, \* PID namespace in which the thread's children are created
    fd,             \* enterNamespace's local fd: "none", "open", "closed"
    pidFD,          \* main's local pidFD: "none", "open", "closed"
    pinned,         \* runtime.LockOSThread in force
    needsFork,      \* main's local needsFork (85)
    advisories,     \* number of advisory messages printed (130)
    diag,           \* failure diagnostic printed before a non-zero exit
    childState,     \* "none", "running", "exited"
    childStatus,    \* exit status of the child
    childNs,        \* namespaces the child was created in
    cloneflagsSet,  \* cmd.SysProcAttr assigned (145)
    exitStatus,     \* exit status of the invocation (-1 while running)
    trace           \* history of the steps performed

vars == <<pid, mntNs, utsNs, netNs, ipcNs, pidNs, posArgs, shellEnv, shared,
          command, pc, jpc, nsType, err, ns, pidForChildren, fd, pidFD, pinned,
          needsFork, advisories, diag, childState, childStatus, childNs,
          cloneflagsSet, exitStatus, trace>>

----------------------------------------------------------------------------
(* Bounds *)

\* largest exit status a child is given
MaxChildStatus == 2
\* largest number of positional arguments after the flags
MaxArgs == 2
\* largest number of kinds the caller already shares with the target at start
MaxShared == 1

----------------------------------------------------------------------------
(* Program constants and inputs *)

\* values of the -target flag: its default, a process that exists, one that does not
Targets == {0 - 1, 4242, 99999}
LiveTargets == {4242}

DefaultShell == "/bin/sh"
ShellValues == {"", "/bin/bash"}
CommandValues == {"", "/bin/ls"}

\* the kinds nsMap knows
AllKinds == {"mnt", "net", "ipc", "uts", "user", "pid"}
\* the five kinds main can be asked for
Kinds == {"uts", "net", "ipc", "mnt", "pid"}
SimpleKinds == {"uts", "net", "ipc"}

\* var nsMap
nsMap == [k \in AllKinds |->
            CASE k = "mnt"  -> "CLONE_NEWNS"
              [] k = "net"  -> "CLONE_NEWNET"
              [] k = "ipc"  -> "CLONE_NEWIPC"
              [] k = "uts"  -> "CLONE_NEWUTS"
              [] k = "user" -> "CLONE_NEWUSER"
              [] k = "pid"  -> "CLONE_NEWPID"]

\* the type the kernel gives the namespace file /proc/<pid>/ns/<k>
KernelType(k) ==
    CASE k = "mnt"  -> "CLONE_NEWNS"
      [] k = "net"  -> "CLONE_NEWNET"
      [] k = "ipc"  -> "CLONE_NEWIPC"
      [] k = "uts"  -> "CLONE_NEWUTS"
      [] k = "user" -> "CLONE_NEWUSER"
      [] k = "pid"  -> "CLONE_NEWPID"
      [] OTHER      -> "NONE"

\* setns(fd, nstype) can only succeed when nstype is the type of fd's namespace
SetnsAccepts(fdKind, nsConst) == nsConst = KernelType(fdKind)

\* os.Open of /proc/<p>/ns/<k> can only succeed for a process that exists
OpenPossible(p) == p \in LiveTargets

\* the kinds enterNamespace is called with when called on its own: the kinds of
\* nsMap, a kind the kernel has a namespace file for but nsMap lacks, and a name
\* that is no namespace at all
JoinKinds == AllKinds \cup {"cgroup", "foo"}

\* /proc/<pid>/ns/<k> exists only for the kinds the kernel knows
NsFileExists(k) == k \in AllKinds \cup {"cgroup"}

\* the selector of kind k
Requested(k) ==
    CASE k = "uts" -> utsNs
      [] k = "net" -> netNs
      [] k = "ipc" -> ipcNs
      [] k = "mnt" -> mntNs
      [] k = "pid" -> pidNs
      [] OTHER     -> FALSE

\* membership the thread has at start
InitialNs(k) == IF k \in shared THEN "target" ELSE "caller"

\* positional argument lists: a command followed by arguments
ArgLists ==
    {<<>>} \cup
    {[i \in 1..n |-> IF i = 1 THEN c ELSE "-a"] : n \in 1..MaxArgs, c \in CommandValues}

Event(op, kind, ok) == [op |-> op, kind |-> kind, ok |-> ok, by |-> "parent"]

----------------------------------------------------------------------------
(* Initial state: flags parsed (59-65), nothing done yet *)

\* nothing has been reported
NoDiag == [kind |-> "none", step |-> "none"]

Init ==
    /\ pid \in Targets
    /\ mntNs \in BOOLEAN /\ utsNs \in BOOLEAN /\ netNs \in BOOLEAN
    /\ ipcNs \in BOOLEAN /\ pidNs \in BOOLEAN
    /\ posArgs \in ArgLists
    /\ shellEnv \in ShellValues
    /\ shared \in {s \in SUBSET Kinds : Cardinality(s) <= MaxShared}
    /\ command = ""
    /\ pc = "resolve"
    /\ jpc = "idle"
    /\ nsType = "none"
    /\ err = "nil"
    /\ ns = [k \in AllKinds |-> InitialNs(k)]
    /\ pidForChildren = InitialNs("pid")
    /\ fd = "none"
    /\ pidFD = "none"
    /\ pinned = FALSE
    /\ needsFork = FALSE
    /\ advisories = 0
    /\ diag = NoDiag
    /\ childState = "none"
    /\ childStatus = 0 - 1
    /\ childNs = [k \in AllKinds |-> "none"]
    /\ cloneflagsSet = FALSE
    /\ exitStatus = 0 - 1
    /\ trace = <<>>

----------------------------------------------------------------------------
(* Groups of variables *)

inputs == <<pid, mntNs, utsNs, netNs, ipcNs, pidNs, posArgs, shellEnv, shared>>
childVars == <<childState, childStatus, childNs, cloneflagsSet>>
joinVars == <<jpc, nsType, err>>

threadVars == <<ns, pidForChildren, fd, pidFD, pinned>>
outVars == <<advisories, diag, exitStatus>>

\* os.Exit(code): the process ends at once, deferred calls are not run
Exit(code, d) ==
    /\ pc' = "exited"
    /\ exitStatus' = code
    /\ diag' = d

\* the order of main's namespace statements (90-132)
MainOrderMntEarly == <<"uts", "net", "mnt", "ipc", "openpid", "pid">>
MainOrderPidOpenLate == <<"uts", "net", "ipc", "mnt", "openpid", "pid">>
MainOrder == <<"uts", "net", "ipc", "openpid", "mnt", "pid">>

\* the statement of main that follows statement k
NextPc(k) ==
    LET i == CHOOSE n \in 1..Len(MainOrder) : MainOrder[n] = k
    IN  IF i < Len(MainOrder) THEN MainOrder[i + 1] ELSE "launch"

\* the kind main passes to enterNamespace at the call site of kind k (91, 96, 101, 117)
JoinArgCopied(k) == IF k = "net" THEN "uts" ELSE k
JoinArg(k) == k

----------------------------------------------------------------------------
(* main, lines 67-88 *)

\* $SHELL is not consulted
ResolveCommandNoShell ==
    /\ pc = "resolve"
    /\ command' = IF Len(posArgs) = 0 THEN DefaultShell ELSE posArgs[1]
    /\ pc' = "validate"
    /\ UNCHANGED <<inputs, joinVars, threadVars, needsFork, outVars, childVars, trace>>

\* 67-78: the command is the first positional argument, or $SHELL, or /bin/sh
ResolveCommand ==
    /\ pc = "resolve"
    /\ command' = IF Len(posArgs) = 0
                    THEN (IF shellEnv = "" THEN DefaultShell ELSE shellEnv)
                    ELSE posArgs[1]
    /\ pc' = "validate"
    /\ UNCHANGED <<inputs, joinVars, threadVars, needsFork, outVars, childVars, trace>>

\* only the target is checked
ValidateTargetOnly ==
    /\ pc = "validate"
    /\ IF pid < 0
         THEN Exit(1, [kind |-> "none", step |-> "usage"])
         ELSE /\ pc' = "lock"
              /\ UNCHANGED <<diag, exitStatus>>
    /\ UNCHANGED <<inputs, command, joinVars, threadVars, needsFork, advisories,
                   childVars, trace>>

\* 80-83: usage and exit 1 on a negative target or an empty command
Validate ==
    /\ pc = "validate"
    /\ IF pid < 0 \/ command = ""
         THEN Exit(1, [kind |-> "none", step |-> "usage"])
         ELSE /\ pc' = "lock"
              /\ UNCHANGED <<diag, exitStatus>>
    /\ UNCHANGED <<inputs, command, joinVars, threadVars, needsFork, advisories,
                   childVars, trace>>

\* the thread is not pinned
LockOSThreadSkipped ==
    /\ pc = "lock"
    /\ needsFork' = FALSE
    /\ pc' = MainOrder[1]
    /\ UNCHANGED <<inputs, command, joinVars, threadVars, outVars, childVars, trace>>

\* 85-88: needsFork := false; runtime.LockOSThread()
LockOSThread ==
    /\ pc = "lock"
    /\ needsFork' = FALSE
    /\ pinned' = TRUE
    /\ trace' = Append(trace, Event("lock", "none", TRUE))
    /\ pc' = MainOrder[1]
    /\ UNCHANGED <<inputs, command, joinVars, ns, pidForChildren, fd, pidFD, outVars,
                   childVars>>

----------------------------------------------------------------------------
(* main, lines 90-104 and 116-120: the calls of enterNamespace *)

JoinSites == {"uts", "net", "ipc", "mnt"}

\* the if of a kind that is not requested is skipped
SkipNamespace ==
    /\ pc \in JoinSites
    /\ jpc = "idle"
    /\ ~Requested(pc)
    /\ pc' = NextPc(pc)
    /\ UNCHANGED <<inputs, command, joinVars, threadVars, needsFork, outVars,
                   childVars, trace>>

\* enterNamespace(pid, kind) is called for a requested kind
CallEnterNamespace ==
    /\ pc \in JoinSites
    /\ jpc = "idle"
    /\ Requested(pc)
    /\ nsType' = JoinArg(pc)
    /\ jpc' = "open"
    /\ err' = "nil"
    /\ fd' = "none"
    /\ UNCHANGED <<inputs, command, pc, ns, pidForChildren, pidFD, pinned, needsFork, outVars, childVars,
                   trace>>

\* the error is logged and main goes on
JoinErrorIgnored ==
    /\ pc \in JoinSites
    /\ jpc = "returned"
    /\ err # "nil"
    /\ pc' = NextPc(pc)
    /\ jpc' = "idle"
    /\ diag' = [kind |-> nsType, step |-> err]
    /\ UNCHANGED <<inputs, command, nsType, err, threadVars, needsFork, advisories,
                   exitStatus, childVars, trace>>

\* the failed join is called again
JoinRetry ==
    /\ pc \in JoinSites
    /\ jpc = "returned"
    /\ err # "nil"
    /\ jpc' = "open"
    /\ err' = "nil"
    /\ fd' = "none"
    /\ UNCHANGED <<inputs, command, pc, nsType, ns, pidForChildren, pidFD, pinned,
                   needsFork, outVars, childVars, trace>>

\* log.Fatalf on the error the join returned: exit status 1
JoinFatal ==
    /\ pc \in JoinSites
    /\ jpc = "returned"
    /\ err # "nil"
    /\ Exit(1, [kind |-> nsType, step |-> err])
    /\ jpc' = "idle"
    /\ UNCHANGED <<inputs, command, nsType, err, threadVars, needsFork, advisories,
                   childVars, trace>>

\* the join returned nil: main goes on with the next statement
JoinDone ==
    /\ pc \in JoinSites
    /\ jpc = "returned"
    /\ err = "nil"
    /\ pc' = NextPc(pc)
    /\ jpc' = "idle"
    /\ nsType' = "none"
    /\ UNCHANGED <<inputs, command, err, threadVars, needsFork, outVars, childVars,
                   trace>>

----------------------------------------------------------------------------
(* enterNamespace, lines 33-56 *)

mainVars == <<pc, command, needsFork, pidFD, pinned>>

\* 34-38: os.Open of the namespace file; on failure the join returns at once
JoinOpen ==
    /\ jpc = "open"
    /\ \E ok \in BOOLEAN :
         /\ ok => (OpenPossible(pid) /\ NsFileExists(nsType))
         /\ trace' = Append(trace, Event("open", nsType, ok))
         /\ IF ok
              THEN /\ fd' = "open"
                   /\ jpc' = "lookup"
                   /\ err' = "nil"
              ELSE /\ fd' = "none"
                   /\ jpc' = "returned"
                   /\ err' = "open"
    /\ UNCHANGED <<inputs, mainVars, nsType, ns, pidForChildren, outVars, childVars>>

\* the join returns without closing its file
ReturnNoClose(e, tr) ==
    /\ fd' = fd
    /\ jpc' = "returned"
    /\ err' = e
    /\ trace' = tr

\* 39, 55: the deferred fd.Close() runs when the join returns, with e as its error
Return(e, tr) ==
    /\ fd' = "closed"
    /\ jpc' = "returned"
    /\ err' = e
    /\ trace' = Append(tr, Event("close", nsType, TRUE))

\* 46: the kind that is detached before it is bound
NeedsUnshareNever(k) == FALSE
NeedsUnshare(k) == k = "mnt"

\* 41-44: the kind is looked up in nsMap; an unknown kind is refused
JoinLookup ==
    /\ jpc = "lookup"
    /\ IF nsType \in DOMAIN nsMap
         THEN /\ jpc' = IF NeedsUnshare(nsType) THEN "unshare" ELSE "setns"
              /\ UNCHANGED <<fd, err, trace>>
         ELSE Return("unsupported", trace)
    /\ UNCHANGED <<inputs, mainVars, nsType, ns, pidForChildren, outVars, childVars>>

\* 46-50: for mnt only, unshare(CLONE_NEWNS) gives the thread a private mount namespace
JoinUnshare ==
    /\ jpc = "unshare"
    /\ \E ok \in BOOLEAN :
         IF ok
           THEN /\ ns' = [ns EXCEPT !["mnt"] = "private"]
                /\ jpc' = "setns"
                /\ trace' = Append(trace, Event("unshare", nsType, TRUE))
                /\ UNCHANGED <<fd, err>>
           ELSE /\ Return("unshare", Append(trace, Event("unshare", nsType, FALSE)))
                /\ UNCHANGED ns
    /\ UNCHANGED <<inputs, mainVars, nsType, pidForChildren, outVars, childVars>>

\* a successful setns: the thread becomes a member of the target's namespace of kind
\* k; for pid it is the namespace of the thread's future children that changes
SetnsEffect(k) ==
    IF k = "pid"
      THEN /\ pidForChildren' = "target"
           /\ UNCHANGED ns
      ELSE /\ ns' = [ns EXCEPT ![k] = "target"]
           /\ UNCHANGED pidForChildren

\* 52-55: unix.Setns(fd, nsConst), then return
JoinSetns ==
    /\ jpc = "setns"
    /\ \E ok \in BOOLEAN :
         /\ ok => SetnsAccepts(nsType, nsMap[nsType])
         /\ IF ok
              THEN /\ SetnsEffect(nsType)
                   /\ Return("nil", Append(trace, Event("setns", nsType, TRUE)))
              ELSE /\ UNCHANGED <<ns, pidForChildren>>
                   /\ Return("setns", Append(trace, Event("setns", nsType, FALSE)))
    /\ UNCHANGED <<inputs, mainVars, nsType, outVars, childVars>>

----------------------------------------------------------------------------
(* main, lines 106-132 *)

\* 108-114: the target's PID-namespace file is opened, whatever was requested
OpenPidFD ==
    /\ pc = "openpid"
    /\ \E ok \in BOOLEAN :
         /\ ok => OpenPossible(pid)
         /\ trace' = Append(trace, Event("open", "pid", ok))
         /\ IF ok
              THEN /\ pidFD' = "open"
                   /\ pc' = NextPc("openpid")
                   /\ UNCHANGED <<diag, exitStatus>>
              ELSE /\ Exit(1, [kind |-> "pid", step |-> "open"])
                   /\ UNCHANGED pidFD
    /\ UNCHANGED <<inputs, command, joinVars, ns, pidForChildren, fd, pinned,
                   needsFork, advisories, childVars>>

\* 123: the PID namespace is not requested
SkipPid ==
    /\ pc = "pid"
    /\ ~pidNs
    /\ pc' = "launch"
    /\ UNCHANGED <<inputs, command, joinVars, threadVars, needsFork, outVars,
                   childVars, trace>>

\* the bind is left to the child: the calling thread only sets needsFork
SetnsPidDeferred ==
    /\ pc = "pid"
    /\ pidNs
    /\ needsFork' = TRUE
    /\ pc' = "advise"
    /\ UNCHANGED <<inputs, command, joinVars, threadVars, advisories, diag, exitStatus,
                   childVars, trace>>

\* 123-128: unix.Setns(pidFD, CLONE_NEWPID) on the calling thread; needsFork = true
SetnsPid ==
    /\ pc = "pid"
    /\ pidNs
    /\ \E ok \in BOOLEAN :
         /\ ok => SetnsAccepts("pid", nsMap["pid"])
         /\ trace' = Append(trace, Event("setns", "pid", ok))
         /\ IF ok
              THEN /\ SetnsEffect("pid")
                   /\ needsFork' = TRUE
                   /\ pc' = "advise"
                   /\ UNCHANGED <<diag, exitStatus>>
              ELSE /\ Exit(1, [kind |-> "pid", step |-> "setns"])
                   /\ UNCHANGED <<ns, pidForChildren, needsFork>>
    /\ UNCHANGED <<inputs, command, joinVars, fd, pidFD, pinned, advisories, childVars>>

\* 129: the condition of the advisory
AdvisoryDueInverted == mntNs
AdvisoryDue == ~mntNs

\* 129-131: the advisory is printed when the mount namespace was not requested
Advise ==
    /\ pc = "advise"
    /\ IF AdvisoryDue
         THEN /\ advisories' = advisories + 1
              /\ trace' = Append(trace, Event("advisory", "none", TRUE))
         ELSE UNCHANGED <<advisories, trace>>
    /\ pc' = "launch"
    /\ UNCHANGED <<inputs, command, joinVars, threadVars, needsFork, diag, exitStatus,
                   childVars>>

----------------------------------------------------------------------------
(* main, lines 134-157: the launch *)

\* 135: the launch mode is chosen by needsFork
ForkModeWithMount == needsFork /\ mntNs
ForkMode == needsFork

\* 136-140: cmd.Run starts the child, which is created in the thread's namespaces
\* and in the PID namespace set for the thread's children
CmdStart ==
    /\ pc = "launch"
    /\ ForkMode
    /\ \E ok \in BOOLEAN :
         /\ trace' = Append(trace, Event("spawn", "none", ok))
         /\ IF ok
              THEN /\ childState' = "running"
                   /\ childNs' = [ns EXCEPT !["pid"] = pidForChildren]
                   /\ pc' = "wait"
                   /\ UNCHANGED <<diag, exitStatus>>
              ELSE /\ Exit(1, [kind |-> "none", step |-> "launch"])
                   /\ UNCHANGED <<childState, childNs>>
    /\ UNCHANGED <<inputs, command, joinVars, threadVars, needsFork, advisories,
                   childStatus, cloneflagsSet>>

\* the child runs the command and ends with some exit status
ChildExit ==
    /\ childState = "running"
    /\ \E s \in 0..MaxChildStatus :
         /\ childStatus' = s
         /\ childState' = "exited"
    /\ UNCHANGED <<inputs, command, pc, joinVars, threadVars, needsFork, outVars,
                   childNs, cloneflagsSet, trace>>

\* 140-143: cmd.Run waits for the child; a non-zero status is an error: exit 1
CmdWait ==
    /\ pc = "wait"
    /\ childState = "exited"
    /\ IF childStatus # 0
         THEN Exit(1, [kind |-> "none", step |-> "launch"])
         ELSE /\ pc' = "attr"
              /\ UNCHANGED <<diag, exitStatus>>
    /\ UNCHANGED <<inputs, command, joinVars, threadVars, needsFork, advisories,
                   childVars, trace>>

\* 145-147: cmd.SysProcAttr is assigned after cmd.Run has returned
SetSysProcAttr ==
    /\ pc = "attr"
    /\ cloneflagsSet' = TRUE
    /\ trace' = Append(trace, Event("attr", "none", TRUE))
    /\ pc' = "return"
    /\ UNCHANGED <<inputs, command, joinVars, threadVars, needsFork, outVars,
                   childState, childStatus, childNs>>

\* 157, 114, 88: main returns; the deferred pidFD.Close() and UnlockOSThread() run
MainReturn ==
    /\ pc = "return"
    /\ pidFD' = "closed"
    /\ pinned' = FALSE
    /\ trace' = Append(Append(trace, Event("close", "pid", TRUE)),
                       Event("unlock", "none", TRUE))
    /\ pc' = "exited"
    /\ exitStatus' = 0
    /\ UNCHANGED <<inputs, command, joinVars, ns, pidForChildren, fd, needsFork,
                   advisories, diag, childVars>>

\* a failed exec is reported but main then returns
ExecNoExit ==
    /\ pc = "launch"
    /\ ~ForkMode
    /\ \E ok \in BOOLEAN :
         /\ trace' = Append(trace, Event("exec", "none", ok))
         /\ IF ok
              THEN /\ pc' = "replaced"
                   /\ pidFD' = "closed"
                   /\ UNCHANGED diag
              ELSE /\ pc' = "return"
                   /\ diag' = [kind |-> "none", step |-> "launch"]
                   /\ UNCHANGED pidFD
    /\ UNCHANGED <<inputs, command, joinVars, ns, pidForChildren, fd, pinned,
                   needsFork, advisories, exitStatus, childVars>>

\* 150-153: unix.Exec replaces the process image (os.Open files are close-on-exec);
\* on failure the error is printed and the exit status is 1
Exec ==
    /\ pc = "launch"
    /\ ~ForkMode
    /\ \E ok \in BOOLEAN :
         /\ trace' = Append(trace, Event("exec", "none", ok))
         /\ IF ok
              THEN /\ pc' = "replaced"
                   /\ pidFD' = "closed"
                   /\ UNCHANGED <<diag, exitStatus>>
              ELSE /\ Exit(1, [kind |-> "none", step |-> "launch"])
                   /\ UNCHANGED pidFD
    /\ UNCHANGED <<inputs, command, joinVars, ns, pidForChildren, fd, pinned,
                   needsFork, advisories, childVars>>

----------------------------------------------------------------------------
(* The invocation *)

Next ==
    \/ ResolveCommand
    \/ Validate
    \/ LockOSThread
    \/ SkipNamespace
    \/ CallEnterNamespace
    \/ JoinOpen
    \/ JoinLookup
    \/ JoinUnshare
    \/ JoinSetns
    \/ JoinFatal
    \/ JoinDone
    \/ OpenPidFD
    \/ SkipPid
    \/ SetnsPid
    \/ Advise
    \/ CmdStart
    \/ ChildExit
    \/ CmdWait
    \/ SetSysProcAttr
    \/ MainReturn
    \/ Exec

Spec == Init /\ [][Next]_vars

\* enterNamespace(pid, nsType) on its own, called with any kind for any target
InitJoin ==
    /\ pid \in {p \in Targets : p >= 0}
    /\ mntNs = FALSE /\ utsNs = FALSE /\ netNs = FALSE
    /\ ipcNs = FALSE /\ pidNs = FALSE
    /\ posArgs = <<>>
    /\ shellEnv = ""
    /\ shared \in {s \in SUBSET Kinds : Cardinality(s) <= MaxShared}
    /\ command = ""
    /\ pc = "caller"
    /\ jpc = "open"
    /\ nsType \in JoinKinds
    /\ err = "nil"
    /\ ns = [k \in AllKinds |-> InitialNs(k)]
    /\ pidForChildren = InitialNs("pid")
    /\ fd = "none"
    /\ pidFD = "none"
    /\ pinned = TRUE
    /\ needsFork = FALSE
    /\ advisories = 0
    /\ diag = NoDiag
    /\ childState = "none"
    /\ childStatus = 0 - 1
    /\ childNs = [k \in AllKinds |-> "none"]
    /\ cloneflagsSet = FALSE
    /\ exitStatus = 0 - 1
    /\ trace = <<>>

NextJoin ==
    \/ JoinOpen
    \/ JoinLookup
    \/ JoinUnshare
    \/ JoinSetns

SpecJoin == InitJoin /\ [][NextJoin]_vars

TypeOK ==
    /\ pc \in {"resolve", "validate", "lock", "uts", "net", "ipc", "openpid", "mnt",
               "pid", "advise", "launch", "wait", "attr", "return", "exited",
               "replaced", "caller"}
    /\ jpc \in {"idle", "open", "lookup", "unshare", "setns", "returned"}
    /\ fd \in {"none", "open", "closed"}
    /\ pidFD \in {"none", "open", "closed"}
    /\ exitStatus \in {0 - 1, 0, 1}
    /\ childState \in {"none", "running", "exited"}

----------------------------------------------------------------------------
(* Properties *)

\* the steps that act on a namespace: open of its file, detach, bind
NsOps == {"open", "unshare", "setns"}
LaunchOps == {"spawn", "exec"}

Steps == DOMAIN trace
Is(i, op, kind) == trace[i].op = op /\ trace[i].kind = kind
Did(op, kind) == \E i \in Steps : Is(i, op, kind) /\ trace[i].ok
Tried(op) == \E i \in Steps : trace[i].op = op

\* main has reached the launch step
LaunchReached == pc \in {"launch", "wait", "attr", "return", "replaced"} \/ Tried("spawn") \/ Tried("exec")

\* C1: every bind of UTS, network or IPC precedes the mount bind, the mount bind
\* precedes the PID bind, and after the PID bind no namespace file is opened and no
\* detach or bind is performed.
C1_JoinOrder ==
    \A i, j \in Steps :
        /\ (trace[i].op = "setns" /\ trace[i].kind \in SimpleKinds /\ Is(j, "setns", "mnt"))
              => i < j
        /\ (Is(i, "setns", "mnt") /\ Is(j, "setns", "pid")) => i < j
        /\ (Is(i, "setns", "pid") /\ trace[j].op \in NsOps) => j <= i

C1_Witness ==
    /\ Did("setns", "uts") /\ Did("setns", "net") /\ Did("setns", "ipc")
    /\ Did("setns", "mnt") /\ Did("setns", "pid")
    /\ pc = "exited"

\* C2: when mount and PID are both requested, the target's PID-namespace file is
\* opened before the mount detach and the mount bind: every mount detach or bind is
\* preceded by the successful open of the PID file, and no open of the PID file
\* follows a mount detach or bind.
C2_PidOpenBeforeMount ==
    (mntNs /\ pidNs) =>
        \A j \in Steps :
            (trace[j].kind = "mnt" /\ trace[j].op \in {"unshare", "setns"}) =>
                /\ \E i \in 1..(j - 1) : Is(i, "open", "pid") /\ trace[i].ok
                /\ \A i \in Steps : Is(i, "open", "pid") => i < j

C2_Witness ==
    /\ mntNs /\ pidNs
    /\ Did("open", "pid") /\ Did("unshare", "mnt") /\ Did("setns", "mnt")
    /\ Did("setns", "pid")

\* a step on a namespace has failed
JoinFailed == \E i \in Steps : trace[i].op \in NsOps /\ ~trace[i].ok

\* C3: when the open, detach or bind of a kind fails, no later open, detach or bind
\* is performed, no command is launched, and the invocation ends with exit status 1:
\* the only step left to it is the one that exits.
C3_FailFast ==
    /\ [](JoinFailed =>
            /\ \A i, j \in Steps :
                 (trace[i].op \in NsOps /\ ~trace[i].ok /\ i < j) =>
                     trace[j].op \notin (NsOps \cup LaunchOps)
            /\ childState = "none"
            /\ \/ pc = "exited" /\ exitStatus = 1
               \/ pc \in JoinSites /\ jpc = "returned" /\ err # "nil")
    /\ [][(JoinFailed /\ pc # "exited") => (pc' = "exited" /\ exitStatus' = 1)]_vars

C3_Witness ==
    /\ Did("setns", "uts")
    /\ \E i \in Steps : Is(i, "setns", "net") /\ ~trace[i].ok
    /\ ipcNs /\ mntNs /\ pidNs
    /\ pc = "exited"

\* C4: an invocation that reaches the launch step spawns a child exactly when the
\* PID namespace was requested and execs in place exactly when it was not.
C4_ModeDeterminism ==
    /\ pc = "launch" => (ForkMode <=> pidNs)
    /\ Tried("spawn") => pidNs
    /\ Tried("exec") => ~pidNs
    /\ (LaunchReached /\ pc # "launch") => (Tried("spawn") <=> ~Tried("exec"))

C4_Witness ==
    /\ Tried("spawn") /\ pidNs /\ mntNs /\ utsNs

C6_OnlyRequestedKinds ==
    /\ \A i \in Steps : trace[i].op \in NsOps => Requested(trace[i].kind)
    /\ diag.step \in {"open", "unshare", "setns", "unsupported"} => Requested(diag.kind)

\* C7: in fork mode, once the child has been spawned and has ended, the exit status
\* of the invocation is the exit status of the child.
C7_ExitStatusIsChildStatus ==
    (pc = "exited" /\ childState = "exited") => exitStatus = childStatus

\* C8: the advisory is printed only when PID is requested and mount is not, at most
\* once; when PID is requested without mount and the joins have succeeded, it has
\* been printed exactly once by the time of the launch, which is in fork mode; the
\* step that prints it leads to the launch, never to the exit.
C8_Advisory ==
    /\ [](/\ advisories > 0 => (pidNs /\ ~mntNs)
          /\ advisories <= 1
          /\ (pidNs /\ ~mntNs /\ LaunchReached) => advisories = 1
          /\ (pidNs /\ (pc = "launch" \/ Tried("spawn"))) => needsFork)
    /\ [][advisories' # advisories =>
            (advisories' = 1 /\ pc' = "launch" /\ ForkMode' /\ exitStatus' = exitStatus)]_vars

C8_Witness ==
    /\ pidNs /\ ~mntNs
    /\ advisories = 1
    /\ childState = "running"

JoinedKinds == {"uts", "net", "ipc", "mnt"}

\* C9 as stated: at the launch the thread is a member of the target's namespace of
\* a kind among UTS, network, IPC, mount if and only if the kind was requested.
C9_MemberIffRequested ==
    LaunchReached =>
        \A k \in JoinedKinds : (ns[k] = "target") <=> Requested(k)

\* C9 amended: at the launch the thread is a member of the target's namespace of
\* every requested kind among UTS, network, IPC, mount, and has for every kind not
\* requested the membership it had at start; a child is created with the same
\* memberships.
C9_MemberOfRequested ==
    LaunchReached =>
        \A k \in JoinedKinds :
            /\ Requested(k) => ns[k] = "target"
            /\ ~Requested(k) => ns[k] = InitialNs(k)
            /\ childState # "none" => childNs[k] = ns[k]

C9_Witness ==
    /\ pc = "replaced"
    /\ utsNs /\ netNs /\ ~ipcNs /\ ~mntNs
    /\ shared = {}
    /\ ns["uts"] = "target" /\ ns["net"] = "target"
    /\ ns["ipc"] = "caller" /\ ns["mnt"] = "caller"

\* C10: when the PID namespace is not requested no child is created; a failed exec
\* is reported and ends the invocation with exit status 1; after a successful exec
\* no step of the program is executed.
C10_ReplaceMode ==
    /\ [](~pidNs =>
            /\ childState = "none"
            /\ ~Tried("spawn")
            /\ \A i \in Steps :
                 trace[i].op = "exec" =>
                    IF trace[i].ok
                      THEN pc = "replaced" /\ i = Len(trace)
                      ELSE pc = "exited" /\ exitStatus = 1 /\ diag.step = "launch")
    /\ [][pc # "replaced"]_vars

C10_Witness ==
    /\ ~pidNs
    /\ pc = "exited"
    /\ \E i \in Steps : trace[i].op = "exec" /\ ~trace[i].ok

\* the invocation is over: it has exited, or its image has been replaced
Terminal == pc \in {"exited", "replaced"}

\* C11: in every terminal state every namespace handle that was opened has been
\* released, except a PID handle handed over to a child; the handle of a join is
\* released when the join returns.
C11_HandlesReleased ==
    /\ jpc \in {"returned", "idle"} => fd # "open"
    /\ Terminal => fd # "open"
    /\ (Terminal /\ childState = "none") => pidFD # "open"

\* C12: the thread is pinned before the first open, detach or bind and before the
\* launch, no unpin precedes any of them, and the thread is pinned in every state
\* from the first join statement to the end of the launch: it is unpinned only
\* after the launch has been issued.
C12_Pinned ==
    /\ \A i \in Steps :
         trace[i].op \in (NsOps \cup LaunchOps) =>
            /\ \E j \in 1..(i - 1) : trace[j].op = "lock"
            /\ \A j \in 1..(i - 1) : trace[j].op # "unlock"
    /\ pc \in {"uts", "net", "ipc", "openpid", "mnt", "pid", "advise", "launch", "wait"}
          => pinned
    /\ Tried("unlock") => (Tried("spawn") \/ Tried("exec"))
    /\ (Tried("lock") /\ ~pinned) => Tried("unlock")

C12_Witness ==
    /\ Tried("unlock")
    /\ ~pinned
    /\ Did("setns", "mnt") /\ Did("setns", "pid") /\ Did("spawn", "none")

\* C13: the command launched is the first positional argument when there is one,
\* else the value of SHELL when it is not empty, else /bin/sh.
C13_CommandResolution ==
    (pc \notin {"resolve"}) =>
        /\ Len(posArgs) > 0 => command = Head(posArgs)
        /\ (Len(posArgs) = 0 /\ shellEnv # "") => command = shellEnv
        /\ (Len(posArgs) = 0 /\ shellEnv = "") => command = "/bin/sh"

C13_Witness ==
    /\ posArgs = <<>>
    /\ shellEnv = ""
    /\ command = "/bin/sh"
    /\ Did("exec", "none")

\* C14: in a mount join the detach precedes the bind; after a failed detach the
\* mount bind is never attempted and the join returns the detach failure; no kind
\* other than mount is ever detached.
C14_DetachBeforeBind ==
    /\ \A i \in Steps : trace[i].op = "unshare" => trace[i].kind = "mnt"
    /\ \A j \in Steps :
         Is(j, "setns", "mnt") =>
            \E i \in 1..(j - 1) : Is(i, "unshare", "mnt") /\ trace[i].ok
    /\ (\E i \in Steps : Is(i, "unshare", "mnt") /\ ~trace[i].ok) =>
         /\ \A j \in Steps : ~Is(j, "setns", "mnt")
         /\ err = "unshare"
         /\ (jpc = "returned" \/ pc = "exited")

C14_Witness ==
    /\ \E i \in Steps : Is(i, "unshare", "mnt") /\ ~trace[i].ok
    /\ Did("setns", "uts")
    /\ pc = "exited"

\* C15 as stated: in a mount join the detach precedes the open of the target's
\* mount-namespace file, so that no mount handle exists when a detach failure is
\* reported.
C15_DetachBeforeOpen ==
    \A i \in Steps :
        Is(i, "unshare", "mnt") =>
            /\ \A j \in 1..(i - 1) : ~Is(j, "open", "mnt")
            /\ ~trace[i].ok => fd = "none"

\* C15 amended: in a mount join the open of the target's mount-namespace file
\* precedes the detach; a detach failure is met with the mount handle open, and the
\* handle is closed when the join returns the failure, before main reports it; no
\* bind is attempted.
C15_OpenBeforeDetach ==
    /\ \A i \in Steps :
         Is(i, "unshare", "mnt") =>
            \E j \in 1..(i - 1) : Is(j, "open", "mnt") /\ trace[j].ok
    /\ jpc = "unshare" => fd = "open"
    /\ \A i \in Steps :
         (Is(i, "unshare", "mnt") /\ ~trace[i].ok) =>
            /\ fd = "closed"
            /\ i < Len(trace) /\ Is(i + 1, "close", "mnt")
            /\ \A j \in Steps : ~Is(j, "setns", "mnt")

C15_Witness ==
    /\ \E i \in Steps : Is(i, "unshare", "mnt") /\ ~trace[i].ok
    /\ jpc = "returned"
    /\ err = "unshare"

\* C16: in fork mode the child's clone flags are assigned before the child is
\* started, never after the child has run.
C16_AttrBeforeStart ==
    /\ \A i, j \in Steps :
         (trace[i].op = "attr" /\ trace[j].op = "spawn") => i < j
    /\ childState # "none" => cloneflagsSet

\* the state of the invocation's state machine that position p of main belongs to:
\* 0 Start, 1 JoiningSimpleNamespaces, 2 OpeningPidHandle, 3 JoiningMount,
\* 4 Launching, 5 Terminal
Stage(p) ==
    CASE p \in {"resolve", "validate", "lock"} -> 0
      [] p \in {"uts", "net", "ipc"} -> 1
      [] p = "openpid" -> 2
      [] p = "mnt" -> 3
      [] p \in {"pid", "advise", "launch", "wait", "attr", "return"} -> 4
      [] p \in {"exited", "replaced"} -> 5

\* a step has failed: a call that returned an error, or a child that ended non-zero
StepFailed ==
    \/ \E i \in Steps : ~trace[i].ok
    \/ (childState = "exited" /\ childStatus # 0)

\* C17: the invocation never moves to an earlier state of Start, JoiningSimple-
\* Namespaces, OpeningPidHandle, JoiningMount, Launching, Terminal; each open,
\* detach, bind and launch step is performed at most once per kind; after a failure
\* the next move of main is to the exit with status 1.
C17_LinearNoRetry ==
    /\ [][Stage(pc') >= Stage(pc)]_vars
    /\ [](\A i, j \in Steps :
            (i < j /\ trace[i].op \in (NsOps \cup LaunchOps)) =>
                ~(trace[j].op = trace[i].op /\ trace[j].kind = trace[i].kind))
    /\ [](StepFailed =>
            \/ pc = "exited" /\ exitStatus = 1
            \/ pc \in JoinSites /\ jpc = "returned" /\ err # "nil"
            \/ pc = "wait")
    /\ [][(StepFailed /\ pc # "exited") => (pc' = "exited" /\ exitStatus' = 1)]_vars

C17_Witness ==
    /\ pc = "exited"
    /\ exitStatus = 1
    /\ Did("setns", "uts") /\ Did("setns", "net") /\ Did("setns", "ipc")
    /\ Did("open", "pid")
    /\ Did("unshare", "mnt")
    /\ \E i \in Steps : Is(i, "setns", "mnt") /\ ~trace[i].ok

\* C18: a join called with a kind that nsMap lacks returns the unsupported-kind
\* failure, not an open failure, whether or not the target has a namespace file
\* of that name, and performs neither a detach nor a bind.
C18_UnsupportedKindRefused ==
    (nsType \notin DOMAIN nsMap) =>
        /\ jpc = "returned" => err = "unsupported"
        /\ ~Tried("unshare")
        /\ ~Tried("setns")

\* C19: with a missing or negative target, or an empty command, the invocation
\* exits with status 1 at the validation: the thread was never pinned, no namespace
\* file was opened, detached from or bound, and no command was launched.
C19_UsageExit ==
    ((pid < 0 \/ command = "") /\ pc \notin {"resolve", "validate"}) =>
        /\ pc = "exited"
        /\ exitStatus = 1
        /\ ~pinned
        /\ trace = <<>>
        /\ fd = "none" /\ pidFD = "none"
        /\ childState = "none"

C19_Witness ==
    /\ pid = 4242
    /\ Len(posArgs) > 0
    /\ command = ""
    /\ mntNs /\ pidNs
    /\ pc = "exited"

====
